---- MODULE Spec2Model ----
(***************************************************************************)
(* Session / authentication gateway of the Meme Collection Manager backend *)
(* (backend/server.js, backend/routes/auth.routes.js, config/passport.js,  *)
(* models/user.model.js), as a state machine.                              *)
(*                                                                         *)
(* One action per request handler.  The Google callback is split at the    *)
(* `await User.findOne(...)` of the verify callback, where other requests  *)
(* may interleave; every other handler is one action, session middleware   *)
(* and passport.session() included.                                        *)
(***************************************************************************)
EXTENDS Integers, Sequences, FiniteSets, TLC

\* ---------------------------------------------------------------- bounds
Browsers == {"b1", "b2"}

\* the clock advances in steps of TickMs, at most MaxTicks times
MaxTicks == 2
TickMs == 12 * 60 * 60 * 1000

\* number of steps (requests handled, clock ticks) a behaviour takes
MaxSteps == 5

\* ------------------------------------------------------- program constants
\* cookie: { maxAge: 24 * 60 * 60 * 1000 }
MaxAge == 24 * 60 * 60 * 1000

\* process.env.FRONTEND_URL + '/login' , process.env.FRONTEND_URL + '/'
LoginURL == "FRONTEND_URL/login"
HomeURL == "FRONTEND_URL/"
GoogleURL == "accounts.google.com/o/oauth2/v2/auth"

\* ------------------------------------------------------------ user model
\* the null document (findOne / findById resolving to null, req.user unset)
NoUser ==
    [_id |-> 0, googleId |-> "", displayName |-> "", email |-> <<>>, profileImage |-> ""]

\* String.prototype.toLowerCase on the characters the profiles below use
LowerChar(c) ==
    CASE c = "A" -> "a"
      [] c = "B" -> "b"
      [] c = "X" -> "x"
      [] OTHER -> c

RECURSIVE TrimLeft(_)
TrimLeft(s) ==
    IF s # <<>> /\ Head(s) = " " THEN TrimLeft(Tail(s)) ELSE s

RECURSIVE TrimRight(_)
TrimRight(s) ==
    IF s # <<>> /\ s[Len(s)] = " " THEN TrimRight(SubSeq(s, 1, Len(s) - 1)) ELSE s

\* userSchema.email: { lowercase: true, trim: true }, applied when the document is built
NormalizeEmail(e) ==
    TrimRight(TrimLeft([i \in 1..Len(e) |-> LowerChar(e[i])]))

\* Provider profiles the callback may receive.  emails / photos are absent
\* (modelled as the empty sequence) when Google sends none.  ProfileA2 is g1's
\* profile after a change at the provider; ProfileB's first email normalizes to
\* the same address as ProfileA's.
ProfileA ==
    [id |-> "g1", displayName |-> "Ann", emails |-> << <<"A", "@", "x">> >>,
     photos |-> <<"ann.png">>]
ProfileA2 ==
    [id |-> "g1", displayName |-> "Anna", emails |-> << <<"n", "@", "x">> >>,
     photos |-> <<"anna.png">>]
ProfileB ==
    [id |-> "g2", displayName |-> "Bob", emails |-> << <<" ", "a", "@", "X">>, <<"b", "@", "x">> >>,
     photos |-> <<"bob.png", "bob2.png">>]
ProfileNoEmail ==
    [id |-> "g2", displayName |-> "Bob", emails |-> <<>>, photos |-> <<"bob.png">>]
ProfileNoPhoto ==
    [id |-> "g2", displayName |-> "Bob", emails |-> << <<"b", "@", "x">> >>, photos |-> <<>>]
ProfileNoName ==
    [id |-> "g2", displayName |-> "", emails |-> << <<"b", "@", "x">> >>,
     photos |-> <<"bob.png">>]
NoProfile ==
    [id |-> "", displayName |-> "", emails |-> <<>>, photos |-> <<>>]

Profiles ==
    {ProfileA, ProfileA2, ProfileB, ProfileNoEmail, ProfileNoPhoto, ProfileNoName}

\* What the OAuth2 strategy gets before the verify callback runs: ?error=access_denied,
\* another error (an ?error=..., a failed code exchange, a failed profile fetch:
\* the strategy calls this.error for each), or the profile of the code's owner
QueryDenied == "access_denied"
QueryError == "oauth_error"
QueryCode == "code"
Arrivals ==
    {[q |-> QueryDenied, profile |-> NoProfile], [q |-> QueryError, profile |-> NoProfile]}
        \cup {[q |-> QueryCode, profile |-> p] : p \in Profiles}

VARIABLES
    users,      \* the users collection: a set of User documents
    sessions,   \* MemoryStore: session id -> [user, expires, login]; user is
                \* session.passport.user, expires is cookie.expires, login is
                \* history: the Google id whose login created the session
    cookies,    \* per browser: the connect.sid cookie [sid, expires]; sid 0 = none
    now,        \* Date.now()
    pend,       \* per browser: the callback request suspended at `await User.findOne`
    step,       \* the request handled by the last step, and its response
    nsteps,     \* steps taken so far
    memes,      \* the memes collection: a set of Meme documents
    memeSeq,    \* number of Meme documents created so far (ids are never reused)
    toggles,    \* per browser: the toggle-like request between its read and its
                \* update, and (history) the browser's last completed toggle
    server      \* the server process: db is the state of the mongoose.connect promise
                \* ("idle": connectDB not called yet, "pending", "connected", "failed"),
                \* listening whether app.listen has been called

vars ==
    <<users, sessions, cookies, now, pend, step, nsteps, memes, memeSeq, toggles, server>>

\* a server that connected to MongoDB and listens
Running ==
    [db |-> "connected", listening |-> TRUE]

memeVars == <<memes, memeSeq, toggles>>

NoCookie ==
    [sid |-> 0, expires |-> 0]
NoPend ==
    [active |-> FALSE, profile |-> NoProfile, found |-> NoUser, sid |-> 0, cred |-> 0,
     reqUser |-> 0]
\* active: a toggle-like request has read the document and not yet updated it;
\* mid / uid: its meme and caller; read: the likedBy it read; has: whether uid
\* was in it;
\* prev*: the last toggle this browser completed (meme, caller, like-set before and
\* after its update, the `liked` it reported)
NoToggle ==
    [active |-> FALSE, mid |-> 0, uid |-> 0, has |-> FALSE, read |-> <<>>,
     prevMid |-> 0, prevUid |-> 0, prevBefore |-> <<>>, prevAfter |-> <<>>,
     prevLiked |-> FALSE]

\* ---------------------------------------------------------- persistence
\* User.findOne({ googleId })
FindOne(gid) ==
    IF \E u \in users : u.googleId = gid
    THEN CHOOSE u \in users : u.googleId = gid
    ELSE NoUser

\* User.findById(id)
FindById(id) ==
    IF \E u \in users : u._id = id
    THEN CHOOSE u \in users : u._id = id
    ELSE NoUser

\* new User({ googleId, displayName, email: emails[0].value, profileImage: photos[0].value })
\* reading [0].value of an absent or empty array throws a TypeError
ProfileThrows(p) ==
    p.emails = <<>> \/ p.photos = <<>>

NewUserRawEmail(p) ==
    [_id |-> Cardinality(users) + 1,
     googleId |-> p.id,
     displayName |-> p.displayName,
     email |-> p.emails[1],
     profileImage |-> p.photos[1]]

NewUser(p) ==
    [_id |-> Cardinality(users) + 1,
     googleId |-> p.id,
     displayName |-> p.displayName,
     email |-> NormalizeEmail(p.emails[1]),
     profileImage |-> p.photos[1]]

\* required: true on googleId, displayName, email (an empty string fails `required`)
ValidationFailsNoName(doc) ==
    doc.googleId = "" \/ doc.email = <<>>

ValidationFails(doc) ==
    doc.googleId = "" \/ doc.displayName = "" \/ doc.email = <<>>

\* unique: true on googleId and on email (E11000 duplicate key)
NoUniqueIndex(doc) ==
    FALSE

DuplicateKeyGoogleIdOnly(doc) ==
    \E u \in users : u.googleId = doc.googleId

DuplicateKey(doc) ==
    \E u \in users : u.googleId = doc.googleId \/ u.email = doc.email

\* ------------------------------------------------------ passport config
\* passport.serializeUser((user, done) => done(null, user._id))
SerializeFirstUser(user) ==
    1

SerializeUser(user) ==
    user._id

\* passport.deserializeUser: findById, done(null, user) / catch done(error, null)
DeserializeUserSwallow(id, dbOk) ==
    IF dbOk THEN [err |-> FALSE, user |-> FindById(id)] ELSE [err |-> FALSE, user |-> NoUser]

DeserializeUser(id, dbOk) ==
    IF dbOk THEN [err |-> FALSE, user |-> FindById(id)] ELSE [err |-> TRUE, user |-> NoUser]

\* ------------------------------------------------- express-session store
Remove(s, sid) ==
    [x \in DOMAIN s \ {sid} |-> s[x]]

Live(s, sid) ==
    sid \in DOMAIN s /\ s[sid].expires > now

\* MemoryStore getSession: an expired entry is deleted when it is read
StoreGet(s, sid) ==
    IF sid \in DOMAIN s /\ ~Live(s, sid) THEN Remove(s, sid) ELSE s

\* end of response for a loaded, unmodified session: store.touch resets the expiry
StoreTouchNoMaxAge(s, sid) ==
    IF Live(s, sid) THEN [s EXCEPT ![sid].expires = now] ELSE StoreGet(s, sid)

StoreTouch(s, sid) ==
    IF Live(s, sid) THEN [s EXCEPT ![sid].expires = now + MaxAge] ELSE StoreGet(s, sid)

\* A fresh session id (uid-safe: never one that is in use).  Ids are opaque, so the
\* model names the fresh id by the least number that no store entry, cookie or
\* request in flight holds.
SidsInUse ==
    DOMAIN sessions \cup {cookies[b].sid : b \in Browsers} \cup {pend[b].sid : b \in Browsers}

GenerateSid ==
    CHOOSE n \in 1..(Cardinality(SidsInUse) + 1) :
        n \notin SidsInUse /\ \A m \in 1..(n - 1) : m \in SidsInUse

\* the browser sends the cookie until its Expires instant
PresentedSid(b) ==
    IF cookies[b].sid # 0 /\ now < cookies[b].expires THEN cookies[b].sid ELSE 0

\* req.sessionID of a session loaded from the store (0: a fresh, unsaved session)
LoadedSid(b) ==
    IF Live(sessions, PresentedSid(b)) THEN PresentedSid(b) ELSE 0

\* session.passport.user of the loaded session (0: none)
SessionUser(b) ==
    IF LoadedSid(b) # 0 THEN sessions[LoadedSid(b)].user ELSE 0

Authenticated(b) ==
    SessionUser(b) # 0

Anonymous(b) ==
    SessionUser(b) = 0

\* ------------------------------------------------------------ meme model
\* exports.MEME_CATEGORIES = ['Funny', 'Relatable', 'Dark', 'Wholesome']
MEME_CATEGORIES ==
    {"Funny", "Relatable", "Dark", "Wholesome"}

\* the null document (findById resolving to null); likedBy is the embedded array of
\* user ids, kept without duplicates
NoMeme ==
    [_id |-> 0, user |-> 0, caption |-> <<>>, imageUrl |-> "", category |-> "",
     likedBy |-> <<>>]

\* request bodies a client may send to POST / and PUT /:id (a field that is absent
\* is the empty value, 0 for `user`): two valid ones, one with a category outside
\* the enumeration, one whose imageUrl is no URL, one whose caption is blank, and a
\* valid one that also carries a `user` field
BodyFunny ==
    [caption |-> <<"a", "b">>, imageUrl |-> "http://x/y.png", category |-> "Funny",
     user |-> 0]
BodyDark ==
    [caption |-> <<" ", "X", "a">>, imageUrl |-> "http://x/z.png", category |-> "Dark",
     user |-> 0]
BodyBadCategory ==
    [caption |-> <<"a", "b">>, imageUrl |-> "http://x/y.png", category |-> "OC",
     user |-> 0]
BodyBadUrl ==
    [caption |-> <<"a", "b">>, imageUrl |-> "y.png", category |-> "Funny", user |-> 0]
BodyBlankCaption ==
    [caption |-> <<" ">>, imageUrl |-> "http://x/y.png", category |-> "Funny",
     user |-> 0]
BodyWithUser ==
    [caption |-> <<"a", "b">>, imageUrl |-> "http://x/y.png", category |-> "Funny",
     user |-> 2]
NoBody ==
    [caption |-> <<>>, imageUrl |-> "", category |-> "", user |-> 0]

MemeBodies ==
    {BodyFunny, BodyDark, BodyBadCategory, BodyBadUrl, BodyBlankCaption}

\* the bodies a client sends to PUT /:id
UpdateBodies ==
    {BodyDark, BodyBadCategory, BodyWithUser}

\* --------------------------------------------------------------- responses
\* op: the route; sid: the session id the request's cookie carried; cred: the user
\* id the store held for it when the request arrived (0: no valid session);
\* reqUser: the _id of req.user as passport.session() set it (0: unset);
\* status / loc / body / msg: the response; err: the error passed to next(err) or
\* the strategy's failure; profile / created: the verify callback's input and
\* whether it saved a new document; lookup: how deserializeUser's findById went
\* ("none": not called, "ok", "rejected"); ctype / keys: the Content-Type of the
\* response body and, for JSON, its top-level keys.
\* Meme routes: input: the request body; mid: the :id of the request; target: whose
\* meme :id named when the request arrived ("own", "other", "missing"); code: the
\* machine-readable code of the error, "" when the body carries none; meme: the
\* document in the response; items / totalItems / totalPages / page / limit: the
\* list response and its query; liked / likeCount: the toggle-like response
NoStep ==
    [op |-> "init", b |-> "", status |-> 0, loc |-> "", body |-> NoUser, msg |-> "",
     err |-> "none", sid |-> 0, cred |-> 0, reqUser |-> 0, profile |-> NoProfile,
     created |-> FALSE, lookup |-> "none", ctype |-> "", keys |-> {},
     input |-> NoBody, mid |-> 0, target |-> "", code |-> "", meme |-> NoMeme,
     items |-> <<>>, totalItems |-> 0, totalPages |-> 0, page |-> 0, limit |-> 0,
     liked |-> FALSE, likeCount |-> 0]

\* top-level keys of res.json(document) for a User document
UserKeys ==
    {"_id", "googleId", "displayName", "email", "profileImage"}

Lookup(cred, dbOk) ==
    IF cred = 0 THEN "none" ELSE IF dbOk THEN "ok" ELSE "rejected"

Request(op, b, sid, cred, dbOk) ==
    [NoStep EXCEPT !.op = op, !.b = b, !.sid = sid, !.cred = cred,
                   !.lookup = Lookup(cred, dbOk)]

\* app.use((err, req, res, next) => res.status(500).send('Something broke!'))
ErrorHandler(req, err) ==
    [req EXCEPT !.status = 500, !.err = err, !.msg = "Something broke!",
                !.ctype = "text/html"]

Redirect(req, url) ==
    [req EXCEPT !.status = 302, !.loc = url]

Init ==
    /\ users = {}
    /\ sessions = << >>
    /\ cookies = [b \in Browsers |-> NoCookie]
    /\ now = 0
    /\ pend = [b \in Browsers |-> NoPend]
    /\ step = NoStep
    /\ nsteps = 0
    /\ memes = {}
    /\ memeSeq = 0
    /\ toggles = [b \in Browsers |-> NoToggle]
    /\ server = Running

\* every step counts towards MaxSteps; handling a request or the passing of time
\* leaves the server process as it is
Count ==
    /\ nsteps < MaxSteps
    /\ nsteps' = nsteps + 1
    /\ UNCHANGED server

\* time passes
Tick ==
    /\ Count
    /\ now < MaxTicks * TickMs
    /\ now' = now + TickMs
    /\ step' = [NoStep EXCEPT !.op = "tick"]
    /\ UNCHANGED <<users, sessions, cookies, pend>>
    /\ UNCHANGED memeVars

\* ------------------------------------------- middleware run on every request
\* outcomes of the database call a request makes: it resolves (TRUE) or rejects
DbOutcomes(called) ==
    IF called THEN BOOLEAN ELSE {TRUE}

\* passport.session(): deserialize session.passport.user when the session has one
Deserialize(b, dbOk) ==
    IF SessionUser(b) # 0
    THEN DeserializeUser(SessionUser(b), dbOk)
    ELSE [err |-> FALSE, user |-> NoUser]

\* passport deletes session.passport.user when deserializeUser yields no user
UserGone(b, d) ==
    SessionUser(b) # 0 /\ ~d.err /\ d.user = NoUser

\* the store once a request that leaves its session alone has been answered
\* (saveUninitialized: false: a new session nothing was written to is not stored)
SessionsAfterSaveUninitialized(b, d) ==
    LET sid == LoadedSid(b)
        s == StoreGet(sessions, PresentedSid(b))
    IN  IF UserGone(b, d)
        THEN [s EXCEPT ![sid].user = 0, ![sid].expires = now + MaxAge]
        ELSE IF sid = 0
        THEN [x \in DOMAIN s \cup {GenerateSid} |->
                IF x = GenerateSid
                THEN [user |-> 0, expires |-> now + MaxAge, login |-> ""]
                ELSE s[x]]
        ELSE StoreTouch(s, sid)

SessionsAfter(b, d) ==
    LET sid == LoadedSid(b)
        s == StoreGet(sessions, PresentedSid(b))
    IN  IF UserGone(b, d)
        THEN [s EXCEPT ![sid].user = 0, ![sid].expires = now + MaxAge]
        ELSE StoreTouch(s, sid)

\* a modified session is sent again as a cookie
CookiesAfter(b, d) ==
    IF UserGone(b, d) THEN [cookies EXCEPT ![b].expires = now + MaxAge] ELSE cookies

\* ----------------------------------------------------------------- routes
\* GET /auth/google
AuthGoogle(b) ==
    \E dbOk \in DbOutcomes(Authenticated(b)) :
        LET d == Deserialize(b, dbOk)
            req == Request("google", b, PresentedSid(b), SessionUser(b), dbOk)
        IN  /\ Count
            /\ step' = IF d.err
                       THEN ErrorHandler(req, "deserialize")
                       ELSE Redirect([req EXCEPT !.reqUser = d.user._id], GoogleURL)
            /\ sessions' = SessionsAfter(b, d)
            /\ cookies' = CookiesAfter(b, d)
            /\ UNCHANGED <<users, now, pend>>
            /\ UNCHANGED memeVars

\* GET /auth/current_user: req.isAuthenticated() ? res.json(req.user)
\*                                               : res.status(401).json({ message })
CurrentUserResponse(req, user) ==
    IF user # NoUser
    THEN [req EXCEPT !.status = 200, !.body = user,
                     !.ctype = "application/json", !.keys = UserKeys]
    ELSE [req EXCEPT !.status = 401, !.msg = "Unauthorized",
                     !.ctype = "application/json", !.keys = {"message"}]

CurrentUser(b) ==
    \E dbOk \in DbOutcomes(Authenticated(b)) :
        LET d == Deserialize(b, dbOk)
            req == Request("current_user", b, PresentedSid(b), SessionUser(b), dbOk)
        IN  /\ Count
            /\ step' = IF d.err
                       THEN ErrorHandler(req, "deserialize")
                       ELSE CurrentUserResponse([req EXCEPT !.reqUser = d.user._id], d.user)
            /\ sessions' = SessionsAfter(b, d)
            /\ cookies' = CookiesAfter(b, d)
            /\ UNCHANGED <<users, now, pend>>
            /\ UNCHANGED memeVars

\* AuthService.checkAuthStatus (frontend): the value of userSubject once the check
\* has handled the response `st` of GET /auth/current_user.  An HTTP error goes to
\* catchError (null); a JSON body without a `status` property makes
\* `response.status.success` throw inside tap, which catchError handles as well
checkAuthStatus(st) ==
    IF st.status \notin 200..299 THEN NoUser
    ELSE IF st.ctype # "application/json" \/ "status" \notin st.keys THEN NoUser
    ELSE IF st.code = "" /\ st.body # NoUser THEN st.body
    ELSE NoUser

\* req.logout(cb): passport clears session.passport.user, saves, then regenerates
\* the session, which destroys the old id in the store; the new session is empty
\* and is neither saved nor sent as a cookie
LogOutKeepSession(s, sid) ==
    s

LogOut(s, sid) ==
    Remove(s, sid)

\* res.redirect(process.env.FRONTEND_URL + '/login')
LogoutResponseGuarded(req) ==
    IF req.reqUser = 0
    THEN [req EXCEPT !.status = 401, !.msg = "Unauthorized"]
    ELSE Redirect(req, LoginURL)

LogoutResponse(req) ==
    Redirect(req, LoginURL)

\* GET /auth/logout
Logout(b) ==
    \E dbOk \in DbOutcomes(Authenticated(b)) :
        LET d == Deserialize(b, dbOk)
            req == Request("logout", b, PresentedSid(b), SessionUser(b), dbOk)
        IN  /\ Count
            /\ step' = IF d.err
                       THEN ErrorHandler(req, "deserialize")
                       ELSE LogoutResponse([req EXCEPT !.reqUser = d.user._id])
            /\ sessions' = IF d.err
                           THEN SessionsAfter(b, d)
                           ELSE LogOut(StoreGet(sessions, PresentedSid(b)), LoadedSid(b))
            /\ UNCHANGED <<users, cookies, now, pend>>
            /\ UNCHANGED memeVars

\* whether the verify callback reaches `new User(...).save()` and the insert
SavesNewUser(p, found) ==
    found = NoUser /\ ~ProfileThrows(p) /\ ~ValidationFails(NewUser(p))

\* the verify callback after `await User.findOne` has resolved to `found`
VerifyRefreshesProfile(p, found, dbOk) ==
    IF found # NoUser
    THEN [err |-> "none",
          user |-> [found EXCEPT !.displayName = p.displayName,
                                 !.profileImage = IF p.photos = <<>> THEN "" ELSE p.photos[1]],
          created |-> TRUE]
    ELSE IF ProfileThrows(p) THEN [err |-> "TypeError", user |-> NoUser, created |-> FALSE]
    ELSE IF ValidationFails(NewUser(p))
        THEN [err |-> "ValidationError", user |-> NoUser, created |-> FALSE]
    ELSE IF ~dbOk THEN [err |-> "db", user |-> NoUser, created |-> FALSE]
    ELSE IF DuplicateKey(NewUser(p)) THEN [err |-> "E11000", user |-> NoUser, created |-> FALSE]
    ELSE [err |-> "none", user |-> NewUser(p), created |-> TRUE]

Verify(p, found, dbOk) ==
    IF found # NoUser THEN [err |-> "none", user |-> found, created |-> FALSE]
    ELSE IF ProfileThrows(p) THEN [err |-> "TypeError", user |-> NoUser, created |-> FALSE]
    ELSE IF ValidationFails(NewUser(p))
        THEN [err |-> "ValidationError", user |-> NoUser, created |-> FALSE]
    ELSE IF ~dbOk THEN [err |-> "db", user |-> NoUser, created |-> FALSE]
    ELSE IF DuplicateKey(NewUser(p)) THEN [err |-> "E11000", user |-> NoUser, created |-> FALSE]
    ELSE [err |-> "none", user |-> NewUser(p), created |-> TRUE]

\* req.logIn: regenerate the session (destroying the old id), store the serialized
\* user under a fresh id and save it
LogIn(s, oldSid, user, gid) ==
    [x \in (DOMAIN s \ {oldSid}) \cup {GenerateSid} |->
        IF x = GenerateSid
        THEN [user |-> SerializeUser(user), expires |-> now + MaxAge, login |-> gid]
        ELSE s[x]]

\* (req, res) => res.redirect(process.env.FRONTEND_URL + '/')
CallbackSuccessToLogin(req) ==
    Redirect(req, LoginURL)

CallbackSuccess(req) ==
    Redirect(req, HomeURL)

\* GET /auth/google/callback, up to the `await User.findOne` of the verify callback
CallbackStart(b) ==
    \E a \in Arrivals, dbOk \in DbOutcomes(Authenticated(b)) :
      \E findOk \in DbOutcomes(a.q = QueryCode /\ dbOk) :
        LET q == a.q
            p == a.profile
            d == Deserialize(b, dbOk)
            req == [Request("callback", b, PresentedSid(b), SessionUser(b), dbOk)
                        EXCEPT !.reqUser = d.user._id]
        IN  /\ Count
            /\ ~pend[b].active
            /\ IF ~d.err /\ q = QueryCode /\ findOk
               THEN /\ pend' = [pend EXCEPT ![b] =
                                  [active |-> TRUE, profile |-> p, found |-> FindOne(p.id),
                                   sid |-> LoadedSid(b), cred |-> SessionUser(b),
                                   reqUser |-> d.user._id]]
                    /\ step' = [NoStep EXCEPT !.op = "callback_await", !.b = b]
                    /\ sessions' = StoreGet(sessions, PresentedSid(b))
                    /\ cookies' = cookies
               ELSE /\ pend' = pend
                    /\ step' = IF d.err THEN ErrorHandler(req, "deserialize")
                               ELSE IF q = QueryDenied
                                   THEN Redirect([req EXCEPT !.err = "access_denied"], LoginURL)
                               ELSE IF q = QueryError THEN ErrorHandler(req, "oauth")
                               ELSE ErrorHandler([req EXCEPT !.profile = p], "db")
                    /\ sessions' = SessionsAfter(b, d)
                    /\ cookies' = CookiesAfter(b, d)
            /\ UNCHANGED <<users, now>>
            /\ UNCHANGED memeVars

\* GET /auth/google/callback, from the resolution of findOne to the response
CallbackFinish(b) ==
    \E dbOk \in DbOutcomes(pend[b].active /\ SavesNewUser(pend[b].profile, pend[b].found)) :
        LET pd == pend[b]
            v == Verify(pd.profile, pd.found, dbOk)
            req == [Request("callback", b, pd.sid, pd.cred, TRUE)
                        EXCEPT !.reqUser = pd.reqUser, !.profile = pd.profile,
                               !.created = v.created]
        IN  /\ Count
            /\ pd.active
            /\ pend' = [pend EXCEPT ![b] = NoPend]
            /\ IF v.err # "none"
               THEN /\ step' = ErrorHandler(req, v.err)
                    /\ sessions' = StoreTouch(sessions, pd.sid)
                    /\ UNCHANGED <<users, cookies>>
               ELSE /\ users' = IF v.created THEN users \cup {v.user} ELSE users
                    /\ sessions' = LogIn(sessions, pd.sid, v.user, pd.profile.id)
                    /\ cookies' = [cookies EXCEPT ![b] =
                                     [sid |-> GenerateSid, expires |-> now + MaxAge]]
                    /\ step' = CallbackSuccess(req)
            /\ now' = now
            /\ UNCHANGED memeVars

Next ==
    \/ Tick
    \/ \E b \in Browsers : AuthGoogle(b)
    \/ \E b \in Browsers : CurrentUser(b)
    \/ \E b \in Browsers : Logout(b)
    \/ \E b \in Browsers : CallbackStart(b)
    \/ \E b \in Browsers : CallbackFinish(b)

Spec ==
    Init /\ [][Next]_vars

\* ================================================================ meme API
\* The meme routes (/api/memes) behind the same session middleware.  Handlers the
\* repository gives code for (create, list by owner, update, delete, validation,
\* error handler) follow that code; get-by-id, toggle-like, random, and the
\* filtering and pagination of the list follow the API contract.

\* ---------------------------------------------------------------- bounds
\* steps (meme requests handled) a behaviour of the meme API takes; it may go on
\* with steps of toggle-like requests alone up to MaxLikeSteps
MaxMemeSteps == 3
MaxLikeSteps == 4
\* Meme documents created in one behaviour
MaxMemes == 2
\* ?page= and ?limit= values a client sends
MaxPage == 3
MaxLimit == 2

\* ?category= and ?search= values a client sends ("" / <<>>: parameter absent)
CategoryFilters == {"", "Funny"}
SearchStrings == {<<>>, <<"x">>}

\* the :id values a client sends: every id handed out so far and one never used
MemeIds == 1..(memeSeq + 1)

\* ------------------------------------------------------------ validation
\* express-validator escape(): the characters it replaces
EscapeChar(c) ==
    CASE c = "<" -> "&lt;"
      [] c = ">" -> "&gt;"
      [] c = "&" -> "&amp;"
      [] OTHER -> c

\* body('caption') ... .trim().escape()
Sanitize(caption) ==
    LET t == TrimRight(TrimLeft(caption))
    IN  [i \in 1..Len(t) |-> EscapeChar(t[i])]

\* isURL() on the image URLs the request bodies use
IsURL(u) ==
    u \in {"http://x/y.png", "http://x/z.png"}

\* validateMeme: the messages validationResult(req) holds
ValidationErrorsNoCategory(body) ==
    (IF body.caption = <<>> THEN {"Caption is required."} ELSE {})
        \cup (IF ~IsURL(body.imageUrl) THEN {"A valid Image URL is required."} ELSE {})

ValidationErrors(body) ==
    (IF body.caption = <<>> THEN {"Caption is required."} ELSE {})
        \cup (IF ~IsURL(body.imageUrl) THEN {"A valid Image URL is required."} ELSE {})
        \cup (IF body.category \notin MEME_CATEGORIES
              THEN {"Invalid category specified."} ELSE {})

\* memeSchema: required user / caption / imageUrl, category in the enumeration
MemeValidationFails(doc) ==
    \/ doc.user = 0
    \/ doc.caption = <<>>
    \/ doc.imageUrl = ""
    \/ doc.category \notin MEME_CATEGORIES

\* ----------------------------------------------------------- persistence
\* Meme.findById(id)
MemeById(id) ==
    IF \E m \in memes : m._id = id
    THEN CHOOSE m \in memes : m._id = id
    ELSE NoMeme

\* Meme.find({ user: req.user.id })
MemeFindAll(uid) ==
    memes

MemeFind(uid) ==
    {m \in memes : m.user = uid}

\* Meme.create({ caption, imageUrl, category, user: req.user.id }) after validateMeme
NewMeme(body, uid) ==
    [_id |-> memeSeq + 1, user |-> uid, caption |-> Sanitize(body.caption),
     imageUrl |-> body.imageUrl, category |-> body.category, likedBy |-> <<>>]

\* Meme.findByIdAndUpdate(req.params.id, req.body, { new: true }): every field of
\* the body that the schema has is set, `user` included
UpdatedMeme(m, body) ==
    [m EXCEPT !.caption = Sanitize(body.caption), !.imageUrl = body.imageUrl,
              !.category = body.category,
              !.user = IF body.user # 0 THEN body.user ELSE m.user]

Replace(m, n) ==
    (memes \ {m}) \cup {n}

\* whose meme an :id names for a caller
TargetNoOwnerTest(id, uid) ==
    IF MemeById(id) = NoMeme THEN "missing" ELSE "own"

Target(id, uid) ==
    IF MemeById(id) = NoMeme THEN "missing"
    ELSE IF MemeById(id).user = uid THEN "own" ELSE "other"

\* -------------------------------------------------------------- responses
MemeKeys ==
    {"_id", "user", "caption", "imageUrl", "category", "likedBy"}

\* errorHandler: statusCode = res.statusCode >= 400 ? res.statusCode : 500;
\*               res.json({ message: err.message, stack })
MemeErrorHandlerAlways500(req, status, msg) ==
    [req EXCEPT !.status = 500, !.msg = msg, !.err = msg,
                !.ctype = "application/json", !.keys = {"message", "stack"}]

MemeErrorHandler(req, status, msg) ==
    [req EXCEPT !.status = IF status >= 400 THEN status ELSE 500,
                !.msg = msg, !.err = msg,
                !.ctype = "application/json", !.keys = {"message", "stack"}]

\* return res.status(400).json({ errors: errors.array() })
ValidationResponse(req, errors) ==
    [req EXCEPT !.status = 400, !.msg = CHOOSE e \in errors : TRUE,
                !.ctype = "application/json", !.keys = {"errors"}]

\* the envelope of the API contract: { status: { success, error }, data }
Envelope(req, status, code) ==
    [req EXCEPT !.status = status, !.code = code,
                !.ctype = "application/json", !.keys = {"status", "data"}]

\* the gate in front of every meme route: a caller without an authenticated
\* session is refused with 401 through the error handler
Protect(user) ==
    user # NoUser

\* a meme request once the session middleware and passport.session() have run
MemeRequest(op, b, d, dbOk) ==
    [Request(op, b, PresentedSid(b), SessionUser(b), dbOk) EXCEPT !.reqUser = d.user._id]

\* the answer of a request that does not reach its handler ("" when it does)
Refused(req, d) ==
    IF d.err THEN MemeErrorHandler(req, 200, "deserialize")
    ELSE IF ~Protect(d.user) THEN MemeErrorHandler(req, 401, "Not authorized, no token")
    ELSE req

Reaches(d) ==
    ~d.err /\ Protect(d.user)

\* every step of a meme request counts towards MaxMemeSteps
MemeCount ==
    /\ nsteps < MaxMemeSteps
    /\ nsteps' = nsteps + 1
    /\ UNCHANGED server

\* every step of a toggle-like request counts towards MaxLikeSteps
LikeCount ==
    /\ nsteps < MaxLikeSteps
    /\ nsteps' = nsteps + 1
    /\ UNCHANGED server

\* what the session middleware does to a meme request
MemeSession(b, d) ==
    /\ sessions' = SessionsAfter(b, d)
    /\ cookies' = CookiesAfter(b, d)
    /\ UNCHANGED <<users, now, pend>>

\* what every meme request does besides its handler
MemeFrame(b, d) ==
    /\ MemeCount
    /\ MemeSession(b, d)

\* ------------------------------------------------------------------ routes
\* a request that is answered before its handler runs
RefuseMeme(op, b, d, dbOk) ==
    /\ MemeFrame(b, d)
    /\ step' = Refused(MemeRequest(op, b, d, dbOk), d)
    /\ UNCHANGED memeVars

\* createMeme
CreateMemeHandler(b, d, req0) ==
    \E body \in MemeBodies :
        LET req == [req0 EXCEPT !.input = body]
            errors == ValidationErrors(body)
            doc == NewMeme(body, d.user._id)
        IN  \E opOk \in DbOutcomes(errors = {} /\ ~MemeValidationFails(doc)) :
            /\ MemeFrame(b, d)
            /\ memeSeq < MaxMemes
            /\ UNCHANGED toggles
            /\ IF errors # {}
               THEN step' = ValidationResponse(req, errors) /\ UNCHANGED <<memes, memeSeq>>
               ELSE IF MemeValidationFails(doc)
               THEN /\ step' = MemeErrorHandler(req, 200, "ValidationError")
                    /\ UNCHANGED <<memes, memeSeq>>
               ELSE IF ~opOk
               THEN step' = MemeErrorHandler(req, 200, "db") /\ UNCHANGED <<memes, memeSeq>>
               ELSE /\ memes' = memes \cup {doc}
                    /\ memeSeq' = memeSeq + 1
                    /\ step' = [req EXCEPT !.status = 201, !.meme = doc, !.mid = doc._id,
                                           !.ctype = "application/json", !.keys = MemeKeys]

\* POST /api/memes: protect, validateMeme, createMeme
CreateMeme(b) ==
    \E dbOk \in DbOutcomes(Authenticated(b)) :
        LET d == Deserialize(b, dbOk)
        IN  IF Reaches(d)
            THEN CreateMemeHandler(b, d, MemeRequest("meme_create", b, d, dbOk))
            ELSE RefuseMeme("meme_create", b, d, dbOk)

\* String.prototype.toLowerCase
Lower(str) ==
    [i \in 1..Len(str) |-> LowerChar(str[i])]

\* the search string occurs in the caption, letter case ignored
Contains(str, sub) ==
    \E i \in 0..(Len(str) - Len(sub)) : SubSeq(Lower(str), i + 1, i + Len(sub)) = Lower(sub)

\* the ?category= and ?search= filters of the list
Matches(m, category, search) ==
    /\ category = "" \/ m.category = category
    /\ search = <<>> \/ Contains(m.caption, search)

\* documents in the order they were created
RECURSIVE SortById(_)
SortById(docs) ==
    IF docs = {} THEN <<>>
    ELSE LET m == CHOOSE x \in docs : \A y \in docs : x._id <= y._id
         IN  <<m>> \o SortById(docs \ {m})

\* totalPages = ceil(totalItems / limit)
TotalPagesFloor(n, limit) ==
    n \div limit

TotalPages(n, limit) ==
    (n + limit - 1) \div limit

\* the items of page `page`: (page-1)*limit+1 .. min(page*limit, n)
PageItems(seq, page, limit) ==
    SubSeq(seq, (page - 1) * limit + 1,
           IF page * limit < Len(seq) THEN page * limit ELSE Len(seq))

ListResponse(req, found, page, limit) ==
    [Envelope(req, 200, "") EXCEPT !.items = PageItems(found, page, limit),
                                   !.totalItems = Len(found),
                                   !.totalPages = TotalPages(Len(found), limit),
                                   !.page = page, !.limit = limit]

\* getMemes
GetMemesHandler(b, d, req) ==
    \E opOk \in BOOLEAN :
        /\ MemeFrame(b, d)
        /\ UNCHANGED memeVars
        /\ IF ~opOk
           THEN step' = MemeErrorHandler(req, 200, "db")
           ELSE \E page \in 1..MaxPage, limit \in 1..MaxLimit,
                   category \in CategoryFilters, search \in SearchStrings :
                    LET query == [NoBody EXCEPT !.caption = search, !.category = category]
                        found == SortById({m \in MemeFind(d.user._id) :
                                                Matches(m, category, search)})
                    IN  step' = ListResponse([req EXCEPT !.input = query], found, page, limit)

\* GET /api/memes?page=&limit=&category=&search=
GetMemes(b) ==
    \E dbOk \in DbOutcomes(Authenticated(b)) :
        LET d == Deserialize(b, dbOk)
        IN  IF Reaches(d)
            THEN GetMemesHandler(b, d, MemeRequest("meme_list", b, d, dbOk))
            ELSE RefuseMeme("meme_list", b, d, dbOk)

\* get by id: the meme when it exists and belongs to the caller, else not found
GetMemeHandler(b, d, req0) ==
    \E id \in MemeIds :
        LET req == [req0 EXCEPT !.mid = id, !.target = Target(id, d.user._id)]
        IN  /\ MemeFrame(b, d)
            /\ UNCHANGED memeVars
            /\ step' = IF req.target = "own"
                       THEN [Envelope(req, 200, "") EXCEPT !.meme = MemeById(id)]
                       ELSE Envelope(req, 404, "NOT_FOUND")

\* GET /api/memes/:id
GetMeme(b) ==
    \E dbOk \in DbOutcomes(Authenticated(b)) :
        LET d == Deserialize(b, dbOk)
        IN  IF Reaches(d)
            THEN GetMemeHandler(b, d, MemeRequest("meme_get", b, d, dbOk))
            ELSE RefuseMeme("meme_get", b, d, dbOk)

\* updateMeme / deleteMeme: if (!meme) 404 'Meme not found';
\*                          if (meme.user.toString() !== req.user.id) 401 'User not authorized'
OwnershipCheck(req, target) ==
    IF target = "missing" THEN MemeErrorHandler(req, 404, "Meme not found")
    ELSE IF target = "other" THEN MemeErrorHandler(req, 401, "User not authorized")
    ELSE req

\* updateMeme, with its validationResult check
UpdateMemeHandler(b, d, req0) ==
    \E id \in MemeIds, body \in UpdateBodies :
        LET target == Target(id, d.user._id)
            req == [req0 EXCEPT !.mid = id, !.target = target, !.input = body]
            errors == ValidationErrors(body)
            doc == UpdatedMeme(MemeById(id), body)
        IN  \E opOk \in DbOutcomes(errors = {}) :
            /\ MemeFrame(b, d)
            /\ UNCHANGED <<memeSeq, toggles>>
            /\ IF errors # {}
               THEN step' = ValidationResponse(req, errors) /\ memes' = memes
               ELSE IF ~opOk THEN step' = MemeErrorHandler(req, 200, "db") /\ memes' = memes
               ELSE IF target # "own" THEN step' = OwnershipCheck(req, target) /\ memes' = memes
               ELSE /\ memes' = Replace(MemeById(id), doc)
                    /\ step' = [req EXCEPT !.status = 200, !.meme = doc,
                                           !.ctype = "application/json", !.keys = MemeKeys]

\* PUT /api/memes/:id: protect, validateMeme, updateMeme
UpdateMeme(b) ==
    \E dbOk \in DbOutcomes(Authenticated(b)) :
        LET d == Deserialize(b, dbOk)
        IN  IF Reaches(d)
            THEN UpdateMemeHandler(b, d, MemeRequest("meme_update", b, d, dbOk))
            ELSE RefuseMeme("meme_update", b, d, dbOk)

\* deleteMeme
DeleteMemeHandler(b, d, req0) ==
    \E id \in MemeIds, opOk \in BOOLEAN :
        LET target == Target(id, d.user._id)
            req == [req0 EXCEPT !.mid = id, !.target = target]
        IN  /\ MemeFrame(b, d)
            /\ UNCHANGED <<memeSeq, toggles>>
            /\ IF ~opOk THEN step' = MemeErrorHandler(req, 200, "db") /\ memes' = memes
               ELSE IF target # "own" THEN step' = OwnershipCheck(req, target) /\ memes' = memes
               ELSE /\ memes' = memes \ {MemeById(id)}
                    /\ step' = [req EXCEPT !.status = 200, !.msg = "Meme successfully deleted",
                                           !.ctype = "application/json", !.keys = {"message"}]

\* DELETE /api/memes/:id: protect, deleteMeme
DeleteMeme(b) ==
    \E dbOk \in DbOutcomes(Authenticated(b)) :
        LET d == Deserialize(b, dbOk)
        IN  IF Reaches(d)
            THEN DeleteMemeHandler(b, d, MemeRequest("meme_delete", b, d, dbOk))
            ELSE RefuseMeme("meme_delete", b, d, dbOk)

\* the users in a likedBy array
Members(arr) ==
    {arr[i] : i \in 1..Len(arr)}

\* { $addToSet: { likedBy: uid } }: appended unless the array holds it already
AddToSet(arr, uid) ==
    IF uid \in Members(arr) THEN arr ELSE Append(arr, uid)

\* { $pull: { likedBy: uid } }: every occurrence removed
Pull(arr, uid) ==
    SelectSeq(arr, LAMBDA x : x # uid)

\* the likedBy array after the update: $pull of the caller when the read found the
\* caller in likedBy, $addToSet otherwise, applied to the stored document
LikeUpdateOverwrite(current, read, uid, has) ==
    IF has THEN Pull(read, uid) ELSE AddToSet(read, uid)

LikeUpdateAddOnly(current, read, uid, has) ==
    AddToSet(current, uid)

LikeUpdatePush(current, read, uid, has) ==
    IF has THEN Pull(current, uid) ELSE Append(current, uid)

LikeUpdate(current, read, uid, has) ==
    IF has THEN Pull(current, uid) ELSE AddToSet(current, uid)

\* toggle-like, up to the read of the document
ToggleLikeRead(b, d, req0) ==
    \E id \in MemeIds :
        LET uid == d.user._id
            req == [req0 EXCEPT !.mid = id, !.target = Target(id, uid)]
            m == MemeById(id)
        IN  /\ LikeCount
            /\ MemeSession(b, d)
            /\ UNCHANGED <<memes, memeSeq>>
            /\ IF m # NoMeme
               THEN /\ toggles' = [toggles EXCEPT ![b].active = TRUE, ![b].mid = id,
                                                  ![b].uid = uid, ![b].read = m.likedBy,
                                                  ![b].has = uid \in Members(m.likedBy)]
                    /\ step' = [req EXCEPT !.op = "meme_toggle_await"]
               ELSE /\ toggles' = toggles
                    /\ step' = Envelope(req, 404, "NOT_FOUND")

\* POST /api/memes/:id/toggle-like, up to the read of the document
ToggleLikeStart(b) ==
    \E dbOk \in DbOutcomes(Authenticated(b)) :
        LET d == Deserialize(b, dbOk)
        IN  /\ ~toggles[b].active
            /\ IF Reaches(d)
               THEN ToggleLikeRead(b, d, MemeRequest("meme_toggle", b, d, dbOk))
               ELSE /\ LikeCount
                    /\ MemeSession(b, d)
                    /\ step' = Refused(MemeRequest("meme_toggle", b, d, dbOk), d)
                    /\ UNCHANGED memeVars

\* POST /api/memes/:id/toggle-like, the update and the response
ToggleLikeFinish(b) ==
    LET t == toggles[b]
        m == MemeById(t.mid)
        after == LikeUpdate(m.likedBy, t.read, t.uid, t.has)
        req == [NoStep EXCEPT !.op = "meme_toggle", !.b = b, !.reqUser = t.uid,
                              !.cred = t.uid, !.mid = t.mid, !.target = Target(t.mid, t.uid)]
    IN  /\ LikeCount
        /\ t.active
        /\ UNCHANGED <<users, sessions, cookies, now, pend, memeSeq>>
        /\ IF m = NoMeme
           THEN /\ step' = Envelope(req, 404, "NOT_FOUND")
                /\ toggles' = [toggles EXCEPT ![b].active = FALSE]
                /\ memes' = memes
           ELSE /\ memes' = Replace(m, [m EXCEPT !.likedBy = after])
                /\ toggles' = [toggles EXCEPT ![b].active = FALSE,
                                   ![b].prevMid = t.mid, ![b].prevUid = t.uid,
                                   ![b].prevBefore = m.likedBy, ![b].prevAfter = after,
                                   ![b].prevLiked = ~t.has]
                /\ step' = [Envelope(req, 200, "") EXCEPT !.liked = ~t.has,
                                                          !.likeCount = Len(after)]

\* the documents GET /random picks from: the caller's own collection
RandomPoolAll(uid) ==
    memes

RandomPool(uid) ==
    {m \in memes : m.user = uid}

\* random pick
RandomMemeHandler(b, d, req) ==
    LET pool == RandomPool(d.user._id)
    IN  /\ MemeFrame(b, d)
        /\ UNCHANGED memeVars
        /\ IF pool = {} THEN step' = Envelope(req, 404, "NO_MEMES_FOUND")
           ELSE \E m \in pool : step' = [Envelope(req, 200, "") EXCEPT !.meme = m]

\* GET /api/memes/random
RandomMeme(b) ==
    \E dbOk \in DbOutcomes(Authenticated(b)) :
        LET d == Deserialize(b, dbOk)
        IN  IF Reaches(d)
            THEN RandomMemeHandler(b, d, MemeRequest("meme_random", b, d, dbOk))
            ELSE RefuseMeme("meme_random", b, d, dbOk)

\* ------------------------------------------------------- specification
\* the document user 1 created first
FirstMeme ==
    [_id |-> 1, user |-> 1, caption |-> <<"a", "b">>, imageUrl |-> "http://x/y.png",
     category |-> "Funny", likedBy |-> <<>>]

\* Two users have logged in, one in each browser, and the first has created a meme:
\* the state after the callbacks of g1 (profile ProfileA2) in b1 and of g2 (profile
\* ProfileB) in b2 and after b1's POST /api/memes with BodyFunny
MemeInit ==
    /\ users = {[_id |-> 1, googleId |-> "g1", displayName |-> "Anna",
                 email |-> <<"n", "@", "x">>, profileImage |-> "anna.png"],
                [_id |-> 2, googleId |-> "g2", displayName |-> "Bob",
                 email |-> <<"a", "@", "x">>, profileImage |-> "bob.png"]}
    /\ sessions = (1 :> [user |-> 1, expires |-> MaxAge, login |-> "g1"])
                    @@ (2 :> [user |-> 2, expires |-> MaxAge, login |-> "g2"])
    /\ cookies = [b \in Browsers |->
                    IF b = "b1" THEN [sid |-> 1, expires |-> MaxAge]
                    ELSE [sid |-> 2, expires |-> MaxAge]]
    /\ now = 0
    /\ pend = [b \in Browsers |-> NoPend]
    /\ step = NoStep
    /\ nsteps = 0
    /\ memes = {FirstMeme}
    /\ memeSeq = 1
    /\ toggles = [b \in Browsers |-> NoToggle]
    /\ server = Running

MemeNext ==
    \/ \E b \in Browsers : CreateMeme(b)
    \/ \E b \in Browsers : GetMemes(b)
    \/ \E b \in Browsers : GetMeme(b)
    \/ \E b \in Browsers : UpdateMeme(b)
    \/ \E b \in Browsers : DeleteMeme(b)
    \/ \E b \in Browsers : ToggleLikeStart(b)
    \/ \E b \in Browsers : ToggleLikeFinish(b)
    \/ \E b \in Browsers : RandomMeme(b)
    \/ \E b \in Browsers : Logout(b)

MemeSpec ==
    MemeInit /\ [][MemeNext]_vars

\* ================================================================== likes
\* Toggle-like requests alone, of two users or of one user signed in twice: the
\* state after the logins of g1 in b1 and of g1 or g2 in b2 and after the first
\* POST /api/memes
LikeInit ==
    /\ users = {[_id |-> 1, googleId |-> "g1", displayName |-> "Anna",
                 email |-> <<"n", "@", "x">>, profileImage |-> "anna.png"],
                [_id |-> 2, googleId |-> "g2", displayName |-> "Bob",
                 email |-> <<"a", "@", "x">>, profileImage |-> "bob.png"]}
    /\ \E u \in {1, 2} :
            sessions = (1 :> [user |-> 1, expires |-> MaxAge, login |-> "g1"])
                        @@ (2 :> [user |-> u, expires |-> MaxAge,
                                  login |-> IF u = 1 THEN "g1" ELSE "g2"])
    /\ cookies = [b \in Browsers |->
                    IF b = "b1" THEN [sid |-> 1, expires |-> MaxAge]
                    ELSE [sid |-> 2, expires |-> MaxAge]]
    /\ now = 0
    /\ pend = [b \in Browsers |-> NoPend]
    /\ step = NoStep
    /\ nsteps = 0
    /\ memes = {FirstMeme}
    /\ memeSeq = 1
    /\ toggles = [b \in Browsers |-> NoToggle]
    /\ server = Running

LikeNext ==
    \/ \E b \in Browsers : ToggleLikeStart(b)
    \/ \E b \in Browsers : ToggleLikeFinish(b)

LikeSpec ==
    LikeInit /\ [][LikeNext]_vars

\* ================================================================= startup
\* server.js from the start of the process: connectDB() is called and suspends at
\* `await mongoose.connect`, the rest of the module runs (middleware, routes,
\* app.listen), and only then the connection attempt settles.

\* connectDB(): mongoose.connect is called, the promise is pending
ConnectDB ==
    /\ server.db = "idle"
    /\ server' = [server EXCEPT !.db = "pending"]
    /\ step' = [NoStep EXCEPT !.op = "connectDB"]
    /\ UNCHANGED <<users, sessions, cookies, now, pend, nsteps>>
    /\ UNCHANGED memeVars

\* app.listen(process.env.PORT || 3000, ...)
Listen ==
    /\ server.db # "idle"
    /\ ~server.listening
    /\ server' = [server EXCEPT !.listening = TRUE]
    /\ step' = [NoStep EXCEPT !.op = "listen"]
    /\ UNCHANGED <<users, sessions, cookies, now, pend, nsteps>>
    /\ UNCHANGED memeVars

\* the connection attempt settles: console.log('MongoDB connected') when it
\* resolves, catch (err) { console.error(...) } when it rejects
ConnectSettles ==
    \E ok \in BOOLEAN :
        /\ server.db = "pending"
        /\ server.listening
        /\ server' = [server EXCEPT !.db = IF ok THEN "connected" ELSE "failed"]
        /\ step' = [NoStep EXCEPT !.op = "connect_settled"]
        /\ UNCHANGED <<users, sessions, cookies, now, pend, nsteps>>
        /\ UNCHANGED memeVars

\* the process accepts requests once app.listen has been called
Accepting ==
    server.listening

StartInit ==
    /\ users = {}
    /\ sessions = << >>
    /\ cookies = [b \in Browsers |-> NoCookie]
    /\ now = 0
    /\ pend = [b \in Browsers |-> NoPend]
    /\ step = NoStep
    /\ nsteps = 0
    /\ memes = {}
    /\ memeSeq = 0
    /\ toggles = [b \in Browsers |-> NoToggle]
    /\ server = [db |-> "idle", listening |-> FALSE]

\* the start of the process and the requests of callers without a session
StartNext ==
    \/ ConnectDB
    \/ Listen
    \/ ConnectSettles
    \/ Accepting /\ Tick
    \/ Accepting /\ \E b \in Browsers : AuthGoogle(b)
    \/ Accepting /\ \E b \in Browsers : CurrentUser(b)
    \/ Accepting /\ \E b \in Browsers : Logout(b)

StartSpec ==
    StartInit /\ [][StartNext]_vars

\* ================================================================== expiry
\* Sessions over time.  The server sends the cookie once, at login, with Expires =
\* login + maxAge, and never again (rolling is off, the session is not modified);
\* it does not see the cookie's Expires on later requests and decides by the
\* expiry of the store entry alone, which every request touches.  A browser stops
\* sending the cookie at its Expires; another HTTP client may go on sending it.

\* the instant until which a client that keeps the cookie sends it: past the end
\* of every behaviour
KeptUntil ==
    (MaxTicks + 2) * TickMs

\* Two users logged in at instant 0: Anna in the browser b1, Bob in b2, a client
\* that keeps the cookie it was sent
ExpiryInit ==
    /\ users = {[_id |-> 1, googleId |-> "g1", displayName |-> "Anna",
                 email |-> <<"n", "@", "x">>, profileImage |-> "anna.png"],
                [_id |-> 2, googleId |-> "g2", displayName |-> "Bob",
                 email |-> <<"a", "@", "x">>, profileImage |-> "bob.png"]}
    /\ sessions = (1 :> [user |-> 1, expires |-> MaxAge, login |-> "g1"])
                    @@ (2 :> [user |-> 2, expires |-> MaxAge, login |-> "g2"])
    /\ cookies = [b \in Browsers |->
                    IF b = "b1" THEN [sid |-> 1, expires |-> MaxAge]
                    ELSE [sid |-> 2, expires |-> KeptUntil]]
    /\ now = 0
    /\ pend = [b \in Browsers |-> NoPend]
    /\ step = NoStep
    /\ nsteps = 0
    /\ memes = {}
    /\ memeSeq = 0
    /\ toggles = [b \in Browsers |-> NoToggle]
    /\ server = Running

ExpiryNext ==
    \/ Tick
    \/ \E b \in Browsers : AuthGoogle(b)
    \/ \E b \in Browsers : CurrentUser(b)
    \/ \E b \in Browsers : Logout(b)

ExpirySpec ==
    ExpiryInit /\ [][ExpiryNext]_vars

\* ------------------------------------------------------------------ claims
CallbackSucceeded(st) ==
    st.op = "callback" /\ st.status = 302 /\ st.loc = HomeURL

CallbackFailed(st) ==
    st.op = "callback" /\ st.status # 0 /\ ~CallbackSucceeded(st)

\* the browser holds a cookie whose session the store no longer has
StaleCookie(b) ==
    cookies[b].sid # 0 /\ cookies[b].sid \notin DOMAIN sessions

\* C1: GET /auth/current_user without a valid session answers 200 with data null,
\* never 401 or another error status.
C1_NoSessionAnswers200Null ==
    (step.op = "current_user" /\ step.cred = 0) =>
        (step.status = 200 /\ step.body = NoUser /\ step.msg = "")

\* C2: a session is Anonymous or Authenticated; it becomes Authenticated only by a
\* successful callback of its browser, it becomes Anonymous only by its browser's
\* logout or by expiry, and GET /auth/google, GET /auth/current_user and a failed
\* callback leave it as it was.
C2_SessionTransitions ==
    [][\A b \in Browsers :
        /\ Anonymous(b) # Authenticated(b)
        /\ (Anonymous(b) /\ Authenticated(b)') =>
                (CallbackSucceeded(step') /\ step'.b = b)
        /\ (Authenticated(b) /\ Anonymous(b)') =>
                (step'.op = "tick" \/ (step'.op = "logout" /\ step'.b = b))
        /\ (step'.b = b /\ (step'.op \in {"google", "current_user"} \/ CallbackFailed(step'))) =>
                SessionUser(b)' = SessionUser(b)]_vars

C2_Witness ==
    /\ step.op = "logout"
    /\ step.cred # 0
    /\ step.status = 302
    /\ Anonymous(step.b)

\* C3 as stated: after any failed callback the caller's session is Anonymous.
C3_FailedCallbackLeavesAnonymous ==
    CallbackFailed(step) => Anonymous(step.b)

\* C3 amended: a failed callback establishes no session and changes none: the
\* caller's session is what it was before (Anonymous stays Anonymous, a caller
\* already Authenticated stays bound to the same user), the store gains no entry
\* and no cookie is set.
C3_FailedCallbackEstablishesNothing ==
    [][\A b \in Browsers :
        (CallbackFailed(step') /\ step'.b = b) =>
            /\ SessionUser(b)' = SessionUser(b)
            /\ cookies' = cookies
            /\ DOMAIN sessions' \subseteq DOMAIN sessions
            /\ \A sid \in DOMAIN sessions' : sessions'[sid].user = sessions[sid].user]_vars

C3_Witness ==
    /\ CallbackFailed(step)
    /\ step.err = "ValidationError"
    /\ Anonymous(step.b)

\* C4: every failed callback, a failure inside the verify callback included, ends in
\* a redirect to FRONTEND_URL + '/login' and never in a 5xx response.
C4_FailedCallbackRedirectsToLogin ==
    CallbackFailed(step) => (step.status = 302 /\ step.loc = LoginURL)

\* C5 as stated: a first login creates exactly one record holding the provider's id,
\* display name, first email and first photo, binds the session to it, and
\* current_user on an Authenticated session returns the bound record.
C5_NewIdentityStoredVerbatim ==
    /\ (CallbackSucceeded(step) /\ step.created) =>
        LET p == step.profile
            recs == {u \in users : u.googleId = p.id}
        IN  /\ Cardinality(recs) = 1
            /\ \A u \in recs :
                /\ u.displayName = p.displayName
                /\ u.email = p.emails[1]
                /\ u.profileImage = p.photos[1]
                /\ SessionUser(step.b) = u._id
    /\ (step.op = "current_user" /\ step.cred # 0) =>
        (step.status = 200 /\ step.body \in users /\ step.body._id = step.cred)

\* C5 amended: the record holds the provider's id, display name, first photo and the
\* first email lowercased and trimmed; the session is bound to it; current_user on
\* that session returns exactly that record unless the user lookup itself rejects.
C5_NewIdentityStoredNormalized ==
    /\ (CallbackSucceeded(step) /\ step.created) =>
        LET p == step.profile
            recs == {u \in users : u.googleId = p.id}
        IN  /\ Cardinality(recs) = 1
            /\ \A u \in recs :
                /\ u.displayName = p.displayName
                /\ u.email = NormalizeEmail(p.emails[1])
                /\ u.profileImage = p.photos[1]
                /\ SessionUser(step.b) = u._id
    /\ (step.op = "current_user" /\ step.cred # 0 /\ step.lookup # "rejected") =>
        /\ step.status = 200
        /\ step.body \in users
        /\ step.body._id = step.cred
        /\ step.body.googleId = sessions[step.sid].login

C5_Witness ==
    /\ step.op = "current_user"
    /\ step.status = 200
    /\ step.body.googleId = "g1"
    /\ step.body.displayName = "Ann"
    /\ step.body.email = <<"a", "@", "x">>

\* C6: at most one User record per googleId in every reachable state; records are
\* never removed or changed; a login with an identifier that already has a record
\* is bound to that record and creates none -- under every interleaving, two first
\* logins of one identity whose findOne both precede either save included.
C6_OneUserPerGoogleId ==
    /\ [](\A u1, u2 \in users : u1.googleId = u2.googleId => u1 = u2)
    /\ [][/\ \A u \in users : u \in users'
          /\ \A b \in Browsers, u \in users :
                (CallbackSucceeded(step') /\ step'.b = b /\ step'.profile.id = u.googleId) =>
                    (SessionUser(b)' = u._id /\ ~step'.created)]_vars

C6_Witness ==
    /\ step.op = "callback"
    /\ step.err = "E11000"
    /\ \E u \in users : u.googleId = step.profile.id

\* C7 as stated: for every request req.user is populated iff the request carries a
\* valid session credential, and then it is the user stored in the session.
C7_ReqUserIffCredential ==
    /\ (step.reqUser # 0) <=> (step.cred # 0)
    /\ step.reqUser # 0 => step.reqUser = step.cred

\* C7 amended: for every request whose user lookup (deserializeUser's findById) does
\* not reject, req.user is populated iff the request carries a valid session
\* credential, and then it is the record whose id the login stored: the record of
\* the Google identity that logged in.
C7_ReqUserIffCredentialUnlessLookupRejects ==
    /\ step.lookup # "rejected" =>
        /\ (step.reqUser # 0) <=> (step.cred # 0)
        /\ step.reqUser # 0 => step.reqUser = step.cred
    /\ \A sid \in DOMAIN sessions :
        \E u \in users : u._id = sessions[sid].user /\ u.googleId = sessions[sid].login

C7_Witness ==
    /\ step.op = "current_user"
    /\ step.reqUser = 2
    /\ step.body.googleId = "g2"

\* C8: once logout has completed on an Authenticated session, the credential of that
\* session yields no identity: the store no longer holds it, it stays so until a
\* new successful callback of that browser, and current_user with it reports no user.
C8_LoggedOutCredentialIsDead ==
    /\ [][\A b \in Browsers :
            /\ (step'.op = "logout" /\ step'.b = b /\ step'.status = 302 /\ step'.cred # 0) =>
                    (StaleCookie(b)' /\ cookies'[b].sid = step'.sid)
            /\ StaleCookie(b) =>
                    (StaleCookie(b)' \/ (CallbackSucceeded(step') /\ step'.b = b))]_vars
    /\ []((step.op = "current_user" /\ StaleCookie(step.b)) =>
            (step.status # 200 /\ step.body = NoUser /\ step.reqUser = 0))

C8_Witness ==
    /\ step.op = "current_user"
    /\ StaleCookie(step.b)
    /\ PresentedSid(step.b) # 0
    /\ step.body = NoUser

\* C9: logout on an Anonymous session is no error: it redirects to the same
\* destination as on an Authenticated one, the session is Anonymous afterwards, and
\* a second logout in a row changes nothing the first left.
C9_LogoutIdempotent ==
    /\ []((step.op = "logout" /\ step.lookup # "rejected") =>
            (step.status = 302 /\ step.loc = LoginURL /\ Anonymous(step.b)))
    /\ [][(step.op = "logout" /\ step.status = 302 /\ step'.op = "logout" /\ step'.b = step.b) =>
            /\ step'.status = 302
            /\ step'.loc = step.loc
            /\ UNCHANGED <<users, sessions, cookies, now, pend>>]_vars

C9_Witness ==
    /\ step.op = "logout"
    /\ step.cred = 0
    /\ step.status = 302
    /\ StaleCookie(step.b)

C11_EveryResponseIsEnvelope ==
    (step.status # 0 /\ step.status # 302) =>
        (step.ctype = "application/json" /\ step.keys = {"status", "data"})

\* C20: a callback for a Google identity that already has a User record leaves the
\* users collection as it was, whatever the provider's profile now says; when it
\* succeeds it created nothing and the session is bound to the existing record.
C20_RepeatLoginLeavesUsersUnchanged ==
    [][\A b \in Browsers :
        (/\ step'.op = "callback"
         /\ step'.b = b
         /\ step'.status # 0
         /\ \E u \in users : u.googleId = step'.profile.id) =>
            /\ users' = users
            /\ CallbackSucceeded(step') =>
                    (~step'.created /\ SessionUser(b)' = FindOne(step'.profile.id)._id)]_vars

C20_Witness ==
    /\ CallbackSucceeded(step)
    /\ step.profile = ProfileA2
    /\ ~step.created
    /\ \E u \in users :
        u.googleId = "g1" /\ u.displayName = "Ann" /\ SessionUser(step.b) = u._id

\* the routes of the meme API, as the op of a step
MemeOps ==
    {"meme_create", "meme_list", "meme_get", "meme_update", "meme_delete",
     "meme_toggle", "meme_toggle_await", "meme_random"}

\* C12: get-by-id, update and delete on the id of a meme another user owns answer
\* 404, as for an id that names no meme (for a request of an authenticated caller
\* that passed validation and whose database calls resolved).
C12_NotOwnedAnswers404 ==
    (/\ step.op \in {"meme_get", "meme_update", "meme_delete"}
     /\ step.reqUser # 0
     /\ step.status \notin {400, 500}
     /\ step.target \in {"other", "missing"}) =>
        step.status = 404

C14_ListReturnsOwnMemesOnly ==
    (step.op = "meme_list" /\ step.status = 200) =>
        \A i \in 1..Len(step.items) :
            step.items[i] \in memes /\ step.items[i].user = step.reqUser

C14_Witness ==
    /\ step.op = "meme_list"
    /\ step.status = 200
    /\ Len(step.items) > 0
    /\ \E m \in memes : m.user # step.reqUser

C17_NoLostLike ==
    /\ \A b \in Browsers :
        LET t == toggles[b]
        IN  (t.prevMid # 0 /\ MemeById(t.prevMid) # NoMeme) =>
                (t.prevUid \in Members(MemeById(t.prevMid).likedBy) <=> t.prevLiked)
    /\ \A b1, b2 \in Browsers :
        (/\ toggles[b1].prevUid # toggles[b2].prevUid
         /\ toggles[b1].prevMid # 0
         /\ toggles[b1].prevMid = toggles[b2].prevMid
         /\ toggles[b1].prevLiked /\ toggles[b2].prevLiked
         /\ MemeById(toggles[b1].prevMid) # NoMeme) =>
            /\ Members(MemeById(toggles[b1].prevMid).likedBy)
                    = {toggles[b1].prevUid, toggles[b2].prevUid}
            /\ Len(MemeById(toggles[b1].prevMid).likedBy) = 2
            /\ (step.op = "meme_toggle" /\ step.status = 200 /\ step.b \in {b1, b2}
                    /\ step.mid = toggles[b1].prevMid)
                    => step.likeCount = 2

C17_Witness ==
    /\ \A b \in Browsers :
        /\ ~toggles[b].active
        /\ toggles[b].prevMid = 1
        /\ toggles[b].prevLiked
        /\ toggles[b].read = <<>>
    /\ Members(MemeById(1).likedBy) = {1, 2}
    /\ step.likeCount = 2

C19_RandomPicksOwnMeme ==
    (step.op = "meme_random" /\ step.reqUser # 0) =>
        IF \E m \in memes : m.user = step.reqUser
        THEN step.status = 200 /\ step.meme \in memes /\ step.meme.user = step.reqUser
        ELSE step.status = 404 /\ step.code = "NO_MEMES_FOUND"

C19_Witness ==
    /\ step.op = "meme_random"
    /\ step.status = 404
    /\ step.code = "NO_MEMES_FOUND"
    /\ memes # {}

\* C21: when the callback of an identity that has no record carries a profile
\* without a display name, an email or a photo, the creation fails as a whole: the
\* users collection is unchanged, the callback fails, no session is created or
\* bound by it, and a caller that was Anonymous is Anonymous afterwards.
C21_IncompleteProfileCreatesNothing ==
    [][\A b \in Browsers :
        (/\ step'.op = "callback"
         /\ step'.b = b
         /\ pend[b].active
         /\ pend[b].found = NoUser
         /\ \/ pend[b].profile.displayName = ""
            \/ pend[b].profile.emails = <<>>
            \/ pend[b].profile.photos = <<>>) =>
                /\ users' = users
                /\ CallbackFailed(step')
                /\ \A sid \in DOMAIN sessions' :
                        sid \in DOMAIN sessions /\ sessions'[sid].user = sessions[sid].user
                /\ Anonymous(b) => Anonymous(b)']_vars

C21_Witness ==
    /\ CallbackFailed(step)
    /\ step.profile = ProfileNoPhoto
    /\ step.err = "TypeError"
    /\ Anonymous(step.b)
    /\ ~\E u \in users : u.googleId = step.profile.id

\* C22: every stored email is lowercase and trimmed and no two users share an
\* email; the first login of an identity whose normalized email is the email of an
\* existing user adds no record and creates or binds no session.
C22_EmailsNormalizedAndUnique ==
    /\ [](\A u \in users :
            /\ u.email = NormalizeEmail(u.email)
            /\ \A i \in 1..Len(u.email) : u.email[i] \notin {"A", "B", "X"}
            /\ u.email # <<>> => (Head(u.email) # " " /\ u.email[Len(u.email)] # " "))
    /\ [](\A u1, u2 \in users : u1.email = u2.email => u1 = u2)
    /\ [][\A b \in Browsers :
            (/\ step'.op = "callback"
             /\ step'.b = b
             /\ pend[b].active
             /\ pend[b].found = NoUser
             /\ pend[b].profile.emails # <<>>
             /\ \E u \in users : u.email = NormalizeEmail(pend[b].profile.emails[1])) =>
                    /\ users' = users
                    /\ CallbackFailed(step')
                    /\ \A sid \in DOMAIN sessions' :
                            sid \in DOMAIN sessions /\ sessions'[sid].user = sessions[sid].user
                    /\ Anonymous(b) => Anonymous(b)']_vars

C22_Witness ==
    /\ CallbackFailed(step)
    /\ step.profile = ProfileB
    /\ step.err = "E11000"
    /\ Anonymous(step.b)
    /\ \E u \in users : u.googleId = "g1" /\ u.email = <<"a", "@", "x">>
    /\ ~\E u \in users : u.googleId = "g2"

\* C23: GET /auth/current_user changes neither the users collection nor any
\* session's state: the caller's session is bound to the same user as before (or
\* to none, as before), no session is created and no cookie is set.
C23_CurrentUserHasNoSideEffect ==
    [][step'.op = "current_user" =>
            /\ users' = users
            /\ \A b \in Browsers : SessionUser(b)' = SessionUser(b)
            /\ DOMAIN sessions' \subseteq DOMAIN sessions
            /\ cookies' = cookies
            /\ UNCHANGED <<pend, memes>>]_vars

C23_Witness ==
    /\ step.op = "current_user"
    /\ step.status = 200
    /\ step.body \in users
    /\ SessionUser(step.b) = step.cred
    /\ \E b \in Browsers : Anonymous(b)

\* C29: once checkAuthStatus has handled the response of GET /auth/current_user,
\* the frontend's user state is the record of the user the backend session is bound
\* to, and null when the session is Anonymous (user lookup not rejecting).
C29_UserStateMirrorsSession ==
    (step.op = "current_user" /\ step.status # 0 /\ step.lookup # "rejected") =>
        checkAuthStatus(step) = FindById(SessionUser(step.b))

\* C30: when the connection attempt at startup has failed, the process does not
\* serve: no request is handled by a server whose connection attempt failed.
C30_NoServiceAfterFailedConnect ==
    [][(nsteps' # nsteps /\ step'.status # 0) => server.db # "failed"]_vars

\* C24: a session becomes Anonymous once the lifetime MaxAge, counted from its
\* creation, has elapsed, whether or not requests were made with it in between, and
\* its credential yields no identity from then on (every session of ExpirySpec was
\* created at instant 0); the passing of time changes nothing in the users
\* collection.
C24_SessionEndsAfterMaxAge ==
    /\ now >= MaxAge => \A b \in Browsers : Anonymous(b)
    /\ (step.status # 0 /\ now >= MaxAge) => step.reqUser = 0
    /\ Cardinality(users) = 2

\* C25: the owner of a meme is the user who created it and never changes: a created
\* meme belongs to the caller of the create, and no step (an update whose body
\* carries a `user` field included) changes the owner of an existing meme.
C25_OwnerNeverChanges ==
    [][/\ (step'.op = "meme_create" /\ step'.status = 201) =>
            \A n \in memes' \ memes : n.user = step'.reqUser /\ n.user \in {u._id : u \in users}
       /\ \A m \in memes, n \in memes' : n._id = m._id => n.user = m.user]_vars

C28_NonOwnerChangesNothing ==
    [][\A id \in MemeIds :
        (/\ step'.op \in {"meme_update", "meme_delete"}
         /\ step'.reqUser # 0
         /\ step'.mid = id
         /\ MemeById(id) # NoMeme
         /\ MemeById(id).user # step'.reqUser) =>
            /\ memes' = memes
            /\ MemeById(id)' = MemeById(id)]_vars

C28_Witness ==
    /\ step.op = "meme_delete"
    /\ step.reqUser # 0
    /\ step.status = 401
    /\ MemeById(step.mid) # NoMeme
    /\ MemeById(step.mid).user # step.reqUser

\* C27: no likedBy array holds a user twice, and the like count a toggle-like
\* reports is the number of distinct users in the stored array, however the
\* toggle-like requests interleave, two concurrent toggles of one user on one meme
\* included.
C27_NoDuplicateLikes ==
    /\ \A m \in memes :
        \A i, j \in 1..Len(m.likedBy) : m.likedBy[i] = m.likedBy[j] => i = j
    /\ (step.op = "meme_toggle" /\ step.status = 200) =>
            step.likeCount = Cardinality(Members(MemeById(step.mid).likedBy))

C27_Witness ==
    /\ \A b \in Browsers :
        /\ ~toggles[b].active
        /\ toggles[b].prevMid = 1
        /\ toggles[b].prevUid = 1
        /\ toggles[b].prevLiked
        /\ toggles[b].read = <<>>
    /\ MemeById(1).likedBy = <<1>>
    /\ step.op = "meme_toggle"
    /\ step.likeCount = 1

====
